---- MODULE Spec2Model ----
(***************************************************************************)
(* Model of django_mqtt/models.py: MQTT topic matching (Topic), the        *)
(* candidate prefilter (Topic.get_candidates / __iter__), ACL rule         *)
(* resolution (ACL.get_acl) and permission evaluation (ACL.get_default,    *)
(* ACL.has_permission).                                                    *)
(*                                                                         *)
(* A topic name is a Python str, modelled as a sequence of one-character   *)
(* strings, so that split / startswith / endswith / substring tests are    *)
(* computed character by character as the code computes them.             *)
(***************************************************************************)
EXTENDS Integers, Sequences, FiniteSets, TLC

VARIABLES
    topics,     \* the Topic table: a set of rows
    acls,       \* the ACL table: a set of rows
    settings,   \* django.conf.settings: MQTT_ACL_ALLOW, MQTT_ACL_ALLOW_ANONIMOUS
    available,  \* whether the database answers queries
    call        \* the operation called, its arguments and its outcome

vars == <<topics, acls, settings, available, call>>

(* ------------------------------ bounds -------------------------------- *)

\* Longest name (in characters) given to Topic.__contains__.
MaxLen == 9

\* Longest name of a stored topic, and of a filter whose candidates are asked.
MaxStoredLen == 5

\* Largest number of rows of the Topic table.
MaxTopics == 1

\* Longest name of a topic of a rule, and of a topic resolved by get_acl.
MaxRuleLen == 3

\* Largest number of rows of the ACL table when rules are resolved.
MaxRules == 2

\* Largest number of rows of the ACL table when permissions are evaluated.
MaxPermRules == 1

(* ------------------------- protocol constants ------------------------- *)

TOPIC_SEP == "/"
WILDCARD_MULTI_LEVEL == "#"
WILDCARD_SINGLE_LEVEL == "+"
TOPIC_BEGINNING_DOLLAR == "$"

PROTO_MQTT_ACC_SUS == 1
PROTO_MQTT_ACC_PUB == 2
PROTO_MQTT_ACC == {PROTO_MQTT_ACC_SUS, PROTO_MQTT_ACC_PUB}

None == "None"

(* --------------------------- str operations --------------------------- *)

\* str.startswith
StartsWith(s, p) ==
    /\ Len(p) <= Len(s)
    /\ SubSeq(s, 1, Len(p)) = p

\* str.endswith
EndsWith(s, p) ==
    /\ Len(p) <= Len(s)
    /\ SubSeq(s, Len(s) - Len(p) + 1, Len(s)) = p

\* `p in s` for str, and the ORM's name__contains
HasSubstring(s, p) ==
    \E i \in 0..(Len(s) - Len(p)) : SubSeq(s, i + 1, i + Len(p)) = p

\* `c in s` for a single character c
HasChar(s, c) == \E i \in 1..Len(s) : s[i] = c

RECURSIVE SplitFrom(_, _, _)
SplitFrom(s, sep, cur) ==
    IF s = <<>> THEN <<cur>>
    ELSE IF Head(s) = sep THEN <<cur>> \o SplitFrom(Tail(s), sep, <<>>)
    ELSE SplitFrom(Tail(s), sep, Append(cur, Head(s)))

\* str.split(sep) for a one-character separator
Split(s, sep) == SplitFrom(s, sep, <<>>)

RECURSIVE Join(_, _)
\* sep.join(parts)
Join(parts, sep) ==
    IF Len(parts) = 0 THEN <<>>
    ELSE IF Len(parts) = 1 THEN parts[1]
    ELSE parts[1] \o <<sep>> \o Join(Tail(parts), sep)

(* ------------------------------- Topic -------------------------------- *)

\* Topic.is_wildcard
is_wildcard(name) ==
    HasChar(name, WILDCARD_MULTI_LEVEL) \/ HasChar(name, WILDCARD_SINGLE_LEVEL)

\* Topic.is_dollar
is_dollar(name) == StartsWith(name, <<TOPIC_BEGINNING_DOLLAR>>)

RECURSIVE WalkParts(_, _, _, _)
\* the for loop of Topic.__contains__, from position i of my_parts
WalkParts(my_parts, comp_parts, comp_wild, i) ==
    IF i > Len(my_parts) THEN TRUE
    ELSE LET part == my_parts[i]
             compare == comp_parts[i]
         IN  IF part = <<WILDCARD_SINGLE_LEVEL>>
             THEN IF comp_wild /\ compare = <<WILDCARD_MULTI_LEVEL>>
                  THEN FALSE
                  ELSE WalkParts(my_parts, comp_parts, comp_wild, i + 1)
             ELSE IF part = <<WILDCARD_MULTI_LEVEL>> THEN TRUE
             ELSE IF part # compare THEN FALSE
             ELSE WalkParts(my_parts, comp_parts, comp_wild, i + 1)

\* Topic.__contains__ without the test that both names are of the same
\* dollar class (line 133 dropped).
Topic_contains_NoDollarClass(self, comp) ==
    IF self = comp THEN TRUE
    ELSE IF ~is_wildcard(self) THEN FALSE
    ELSE LET my_parts == Split(self, TOPIC_SEP)
             comp_parts == Split(comp, TOPIC_SEP)
         IN  IF is_dollar(self) /\ my_parts[1] # comp_parts[1] THEN FALSE
             ELSE IF Len(comp_parts) < Len(my_parts) THEN FALSE
             ELSE IF /\ ~EndsWith(self, <<WILDCARD_MULTI_LEVEL>>)
                     /\ Len(comp_parts) > Len(my_parts) THEN FALSE
             ELSE WalkParts(my_parts, comp_parts, is_wildcard(comp), 1)

\* Topic.__contains__ without the test that a filter not ending in `#` has
\* as many segments as the other name (lines 145-146 dropped).
Topic_contains_NoLongerCheck(self, comp) ==
    IF self = comp THEN TRUE
    ELSE IF ~is_wildcard(self) THEN FALSE
    ELSE IF is_dollar(self) # is_dollar(comp) THEN FALSE
    ELSE LET my_parts == Split(self, TOPIC_SEP)
             comp_parts == Split(comp, TOPIC_SEP)
         IN  IF is_dollar(self) /\ my_parts[1] # comp_parts[1] THEN FALSE
             ELSE IF Len(comp_parts) < Len(my_parts) THEN FALSE
             ELSE WalkParts(my_parts, comp_parts, is_wildcard(comp), 1)

\* Topic.__contains__: `comp in self`, self covers comp
Topic_contains(self, comp) ==
    IF self = comp THEN TRUE
    ELSE IF ~is_wildcard(self) THEN FALSE
    ELSE IF is_dollar(self) # is_dollar(comp) THEN FALSE
    ELSE LET my_parts == Split(self, TOPIC_SEP)
             comp_parts == Split(comp, TOPIC_SEP)
         IN  IF is_dollar(self) /\ my_parts[1] # comp_parts[1] THEN FALSE
             ELSE IF Len(comp_parts) < Len(my_parts) THEN FALSE
             ELSE IF /\ ~EndsWith(self, <<WILDCARD_MULTI_LEVEL>>)
                     /\ Len(comp_parts) > Len(my_parts) THEN FALSE
             ELSE WalkParts(my_parts, comp_parts, is_wildcard(comp), 1)

\* Topic.__lt__: self < other, other is a wildcard that covers self
Topic_lt(self, other) ==
    IF ~is_wildcard(other) THEN FALSE ELSE Topic_contains(other, self)

\* A row of the Topic table.
TopicRow(name, wildcard, dollar) ==
    [name |-> name, wildcard |-> wildcard, dollar |-> dollar]

\* Topic(name=name): an instance with the fields' defaults.
NewTopic(name) == TopicRow(name, FALSE, FALSE)

\* Topic.save(update_fields): the row written, its flags recomputed from its
\* name unless update_fields leaves them out.
Topic_save(row, update_fields) ==
    [row EXCEPT
       !.wildcard = IF update_fields = {} \/ "wildcard" \in update_fields
                    THEN is_wildcard(row.name) ELSE @,
       !.dollar = IF update_fields = {} \/ "dollar" \in update_fields
                  THEN is_dollar(row.name) ELSE @]

\* Topic.get_candidates with the two filters of a filter whose topic ends in
\* `#` swapped (name__endswith in place of name__contains).
get_candidates_EndsWithForMulti(self, table) ==
    LET candidates == { r \in table : r.dollar = is_dollar(self) /\ r.wildcard = FALSE }
        multi == EndsWith(self, <<WILDCARD_MULTI_LEVEL>>)
        topic == IF multi THEN SubSeq(self, 1, Len(self) - 1) ELSE self
        parts == Split(topic, WILDCARD_SINGLE_LEVEL)
    IN  IF Len(parts) = 1
        THEN IF Len(topic) # 0
             THEN { r \in candidates : StartsWith(r.name, topic) }
             ELSE candidates
        ELSE IF topic = <<WILDCARD_SINGLE_LEVEL>>
        THEN { r \in candidates : ~HasSubstring(r.name, <<TOPIC_SEP>>) }
        ELSE LET ends == { r \in candidates :
                             /\ StartsWith(r.name, parts[1])
                             /\ EndsWith(r.name, parts[Len(parts)]) }
             IN  { r \in ends :
                     \A i \in 2..(Len(parts) - 1) : HasSubstring(r.name, parts[i]) }

\* Topic.get_candidates: the rows of `table` (Topic.objects) kept by the
\* prefix / suffix / substring filters derived from the filter's name.
get_candidates(self, table) ==
    LET candidates == { r \in table : r.dollar = is_dollar(self) /\ r.wildcard = FALSE }
        multi == EndsWith(self, <<WILDCARD_MULTI_LEVEL>>)
        topic == IF multi THEN SubSeq(self, 1, Len(self) - 1) ELSE self
        parts == Split(topic, WILDCARD_SINGLE_LEVEL)
    IN  IF Len(parts) = 1
        THEN IF Len(topic) # 0
             THEN { r \in candidates : StartsWith(r.name, topic) }
             ELSE candidates
        ELSE IF topic = <<WILDCARD_SINGLE_LEVEL>>
        THEN { r \in candidates : ~HasSubstring(r.name, <<TOPIC_SEP>>) }
        ELSE LET ends ==
                   IF multi
                   THEN { r \in candidates :
                            /\ StartsWith(r.name, parts[1])
                            /\ HasSubstring(r.name, parts[Len(parts)]) }
                   ELSE { r \in candidates :
                            /\ StartsWith(r.name, parts[1])
                            /\ EndsWith(r.name, parts[Len(parts)]) }
             IN  { r \in ends :
                     \A i \in 2..(Len(parts) - 1) : HasSubstring(r.name, parts[i]) }

\* Topic.__iter__: the topics the generator yields.
Topic_iter(self, table) ==
    IF ~is_wildcard(self)
    THEN { NewTopic(self) }
    ELSE { candidate \in get_candidates(self, table) :
             Topic_contains(self, candidate.name) }

(* -------------------------------- ACL --------------------------------- *)

\* A row of the ACL table; topic is the name of the Topic row it refers to,
\* password the stored hash (<<>> when null or blank).
AclRow(topic, acc, allow, users, groups, password) ==
    [topic |-> topic, acc |-> acc, allow |-> allow, users |-> users,
     groups |-> groups, password |-> password]

\* The Topic row of a name (names are unique).
TopicNamed(name) == CHOOSE r \in topics : r.name = name

\* Topic.objects.get_or_create(name=name): the table afterwards.
get_or_create(name) ==
    IF \E r \in topics : r.name = name
    THEN topics
    ELSE topics \cup { Topic_save(NewTopic(name), {}) }

\* ACL.__lt__
ACL_lt(self, other) == Topic_lt(self.topic, other.topic)

RECURSIVE MinFrom(_, _, _)
\* min() over a list: the running minimum is replaced by a later item that
\* compares less than it.
MinFrom(items, i, current) ==
    IF i > Len(items) THEN current
    ELSE IF ACL_lt(items[i], current)
         THEN MinFrom(items, i + 1, items[i])
         ELSE MinFrom(items, i + 1, current)

\* A min() that keeps the first item whatever follows.
PyMin_First(items) == items[1]

\* min(candidates)
PyMin(items) == MinFrom(items, 2, items[1])

\* cls.objects.filter(topic__wildcard=True, acc=acc)
WildcardRules(acc) ==
    { r \in acls : TopicNamed(r.topic).wildcard = TRUE /\ r.acc = acc }

\* The orders in which a queryset without order_by may yield the rows of S.
Enumerations(S) ==
    { f \in [1..Cardinality(S) -> S] :
        \A i, j \in 1..Cardinality(S) : i # j => f[i] # f[j] }

\* ACL.get_acl once its topic is a Topic: the rule returned ({} for None),
\* the wildcard rules being enumerated in the given order.
get_acl(topic, acc, order) ==
    LET exact == { r \in acls : r.topic = topic /\ r.acc = acc }
        Covers(candidate) == Topic_contains(candidate.topic, topic)
        candidates == SelectSeq(order, Covers)
    IN  IF exact # {} THEN exact
        ELSE IF Len(candidates) = 0 THEN {}
        ELSE { PyMin(candidates) }

(* ------------------------ permission evaluation ----------------------- *)

\* The principals: no user (None), AnonymousUser, and two users.
Users == {"u1", "u2"}
Anonymous == "AnonymousUser"
Principals == {None, Anonymous} \cup Users
Groups == {"g1"}

\* user.groups: u2 is in group g1; AnonymousUser.groups is empty.
UserGroups(user) == IF user = "u2" THEN {"g1"} ELSE {}

\* user.is_anonymous
is_anonymous(user) == user = Anonymous

\* django.contrib.auth.hashers.make_password
make_password(raw_password) == <<"pbkdf2_sha256", raw_password>>

\* ACL.check_password: the raw password hashes to the stored hash.
check_password(self, raw_password) == make_password(raw_password) = self.password

\* ACL.is_public
is_public(self) == self.users = {} /\ self.groups = {} /\ self.password = <<>>

\* ACL.has_permission that leaves a user outside the rule with the initial
\* allow = False (line 314 dropped).
has_permission_NoInversion(self, user, password) ==
    IF is_public(self) THEN self.allow
    ELSE LET member ==
               IF user # None
               THEN IF user \in self.users THEN self.allow
                    ELSE IF self.groups \cap UserGroups(user) # {} THEN self.allow
                    ELSE FALSE
               ELSE FALSE
         IN  IF self.password # <<>> /\ password # None
             THEN check_password(self, password)
             ELSE member

\* ACL.has_permission
has_permission(self, user, password) ==
    IF is_public(self) THEN self.allow
    ELSE LET member ==
               IF user # None
               THEN IF user \in self.users THEN self.allow
                    ELSE IF self.groups \cap UserGroups(user) # {} THEN self.allow
                    ELSE ~self.allow
               ELSE FALSE
         IN  IF self.password # <<>> /\ password # None
             THEN check_password(self, password)
             ELSE member

\* The allow of ACL.get_default before the broadcast rule is looked up
\* (lines 254-259).
default_allow(user) ==
    LET allow == IF settings.has_allow THEN settings.allow ELSE FALSE
    IN  IF settings.has_anon /\ (user = None \/ is_anonymous(user))
        THEN settings.anon /\ allow
        ELSE allow

\* Whether ACL.get_default returns at line 261, before any query.
returns_early(user, password) ==
    /\ settings.has_anon
    /\ (user = None \/ is_anonymous(user))
    /\ ~default_allow(user)
    /\ password = None

\* ACL.get_default that takes the rule of the broadcast topic whatever its
\* acc (the filter on acc dropped).
get_default_AnyAcc(acc, user, password) ==
    IF returns_early(user, password) THEN default_allow(user)
    ELSE IF ~(\E t \in topics : t.name = <<WILDCARD_MULTI_LEVEL>>)
    THEN default_allow(user)
    ELSE LET broadcast == { r \in acls : r.topic = <<WILDCARD_MULTI_LEVEL>> }
         IN  IF acc \in PROTO_MQTT_ACC /\ broadcast # {}
             THEN has_permission(CHOOSE r \in broadcast : TRUE, user, password)
             ELSE default_allow(user)

\* ACL.get_default
get_default(acc, user, password) ==
    IF returns_early(user, password) THEN default_allow(user)
    ELSE IF ~(\E t \in topics : t.name = <<WILDCARD_MULTI_LEVEL>>)
    THEN \* Topic.DoesNotExist
         default_allow(user)
    ELSE LET broadcast == { r \in acls : r.topic = <<WILDCARD_MULTI_LEVEL>> }
         IN  IF acc \in PROTO_MQTT_ACC /\ (\E r \in broadcast : r.acc = acc)
             THEN has_permission(CHOOSE r \in broadcast : r.acc = acc,
                                 user, password)
             ELSE default_allow(user)

(* ------------------------- topic name universe ------------------------ *)

\* Segments used to build names: two literals, the wildcards, a `$` segment.
Literals == {<<"a">>, <<"b">>}
DollarSegment == <<TOPIC_BEGINNING_DOLLAR, "s">>
Plus == <<WILDCARD_SINGLE_LEVEL>>
Hash == <<WILDCARD_MULTI_LEVEL>>

\* Sequences of n segments obeying the topic grammar: `+` and `#` occupy a
\* whole segment, `#` only as the last one, the `$` segment only opens a name.
SegSeqs(n) ==
    { s \in [1..n -> Literals \cup {Plus, Hash, DollarSegment}] :
        /\ \A i \in 1..(n - 1) : s[i] # Hash
        /\ \A i \in 2..n : s[i] # DollarSegment }

\* Every name of at most maxlen characters (a segment has at least one
\* character, so such a name has at most (maxlen + 1) \div 2 segments).
NamesUpTo(maxlen) ==
    { n \in UNION { { Join(s, TOPIC_SEP) : s \in SegSeqs(k) } :
                    k \in 1..((maxlen + 1) \div 2) } : Len(n) <= maxlen }

(* ------------------------------ the state ----------------------------- *)

\* The record of the last operation: its arguments and its outcome.
\*   outcome  "none" (no call yet) | "return" | "raise"
\*   bool     a returned boolean
\*   rules    a returned rule ({} for None, else a singleton)
\*   rows     a returned queryset / generator of Topic rows
\*   kind     how get_acl got its topic: "str" | "bytes" | "Topic"
NoCall ==
    [op |-> "none", self |-> <<>>, item |-> <<>>, kind |-> "", acc |-> 0, user |-> None,
     password |-> None, outcome |-> "none", bool |-> FALSE,
     rules |-> {}, rows |-> {}]

NoSettings ==
    [has_allow |-> FALSE, allow |-> FALSE, has_anon |-> FALSE, anon |-> FALSE]

(* --------------------- specification: topic matching ------------------ *)

Names == NamesUpTo(MaxLen)

\* Topic(name=self).__contains__(item)
ContainsCall(self, item) ==
    /\ call' = [NoCall EXCEPT !.op = "__contains__", !.self = self,
                              !.item = item, !.outcome = "return",
                              !.bool = Topic_contains(self, item)]
    /\ UNCHANGED <<topics, acls, settings, available>>

InitTopic ==
    /\ topics = {}
    /\ acls = {}
    /\ settings = NoSettings
    /\ available = TRUE
    /\ call = NoCall

\* No operation has been called yet. A behaviour populates the store and
\* then makes one call: a call reads nothing that an earlier call recorded.
Idle == call.op = "none"

NextTopic ==
    /\ Idle
    /\ \E self \in Names, item \in Names : ContainsCall(self, item)

SpecTopic == InitTopic /\ [][NextTopic]_vars

Segments(name) == Split(name, TOPIC_SEP)

\* name is P/# with P a non-empty sequence of literal segments
IsLiteralPrefixHash(name) ==
    LET segs == Segments(name)
    IN  /\ Len(segs) >= 2
        /\ segs[Len(segs)] = Hash
        /\ \A i \in 1..(Len(segs) - 1) : segs[i] \notin {Plus, Hash}

\* C3: a filter P/# (P literal) covers the parent topic P itself, covers
\* every topic P/s1/.../sn with n >= 1, and covers no topic whose leading
\* segments differ from P.
C3_HashCoversParentAndDescendants ==
    (call.op = "__contains__" /\ IsLiteralPrefixHash(call.self)) =>
        LET segs == Segments(call.self)
            P == SubSeq(segs, 1, Len(segs) - 1)
            other == Segments(call.item)
        IN  IF Len(other) >= Len(P) /\ SubSeq(other, 1, Len(P)) = P
            THEN call.bool = TRUE
            ELSE call.bool = FALSE

\* C4: the filter `#` covers T if and only if T does not start with `$`.
C4_HashCoversExactlyNonDollar ==
    (call.op = "__contains__" /\ call.self = Hash) =>
        (call.bool <=> call.item[1] # "$")

C4_Witness ==
    /\ call.op = "__contains__"
    /\ call.self = Hash
    /\ call.item = <<"$", "s", "/", "a">>
    /\ call.bool = FALSE

C4_WitnessMultiSegment ==
    /\ call.op = "__contains__"
    /\ call.self = Hash
    /\ call.item = <<"a", "/", "b", "/", "a">>
    /\ call.bool = TRUE

\* F has `+` segments and no `#` segment
IsPlusOnlyFilter(name) ==
    LET segs == Segments(name)
    IN  /\ \E i \in 1..Len(segs) : segs[i] = Plus
        /\ \A i \in 1..Len(segs) : segs[i] # Hash

IsConcrete(name) == \A i \in 1..Len(name) : name[i] \notin {"+", "#"}

\* C5: for a filter F with `+` segments and no `#`, and a concrete topic T
\* of the same dollar class, F covers T iff they have the same number of
\* segments and every segment of F is `+` or equals T's segment there.
C5_PlusMatchesSegmentwise ==
    ( /\ call.op = "__contains__"
      /\ IsPlusOnlyFilter(call.self)
      /\ IsConcrete(call.item)
      /\ (call.self[1] = "$") = (call.item[1] = "$") ) =>
        LET F == Segments(call.self)
            T == Segments(call.item)
        IN  call.bool <=>
              /\ Len(F) = Len(T)
              /\ \A i \in 1..Len(F) : F[i] = Plus \/ F[i] = T[i]

C5_Witness ==
    /\ call.op = "__contains__"
    /\ call.self = <<"a", "/", "+", "/", "b">>
    /\ call.item = <<"a", "/", "b", "/", "b", "/", "b">>
    /\ call.bool = FALSE

(* ------------------ specification: the candidate prefilter ------------ *)

StoredNames == NamesUpTo(MaxStoredLen)

\* Topic.objects.create(name=name)
TopicCreate(name) ==
    /\ Cardinality(topics) < MaxTopics
    /\ \A r \in topics : r.name # name
    /\ topics' = topics \cup { Topic_save(NewTopic(name), {}) }
    /\ UNCHANGED <<acls, settings, available, call>>

\* Topic(name=self).get_candidates()
GetCandidatesCall(self) ==
    /\ call' = [NoCall EXCEPT !.op = "get_candidates", !.self = self,
                              !.outcome = "return",
                              !.rows = get_candidates(self, topics)]
    /\ UNCHANGED <<topics, acls, settings, available>>

\* list(Topic(name=self))
IterCall(self) ==
    /\ call' = [NoCall EXCEPT !.op = "__iter__", !.self = self,
                              !.outcome = "return",
                              !.rows = Topic_iter(self, topics)]
    /\ UNCHANGED <<topics, acls, settings, available>>

NextCandidates ==
    \/ Idle /\ \E name \in StoredNames : TopicCreate(name)
    \/ Idle /\ \E self \in StoredNames : GetCandidatesCall(self)
    \/ Idle /\ \E self \in StoredNames : IterCall(self)

SpecCandidates == InitTopic /\ [][NextCandidates]_vars

\* The stored concrete topics, with flags matching their names, that the
\* filter covers.
CoveredRows(self) ==
    { r \in topics :
        /\ ~is_wildcard(r.name)
        /\ r.wildcard = is_wildcard(r.name)
        /\ r.dollar = is_dollar(r.name)
        /\ Topic_contains(self, r.name) }

\* C10: for a wildcard filter F, every stored non-wildcard topic that F
\* covers is in F.get_candidates(), and iterating F yields every one of them.
C10_PrefilterKeepsCovered ==
    (call.op \in {"get_candidates", "__iter__"} /\ is_wildcard(call.self)) =>
        CoveredRows(call.self) \subseteq call.rows

C10_Witness ==
    /\ call.op = "get_candidates"
    /\ call.self = <<"+", "/", "b", "/", "#">>
    /\ \E r \in call.rows : r.name = <<"a", "/", "b", "/", "a">>

(* ---------------------------- the operations -------------------------- *)

\* A rule is saved for the topic of that name, the topic being created
\* first if it is not stored; (topic, acc) is unique.
AclCreate(name, acc, allow, users, groups, password) ==
    /\ \A r \in acls : ~(r.topic = name /\ r.acc = acc)
    /\ topics' = get_or_create(name)
    /\ acls' = acls \cup { AclRow(name, acc, allow, users, groups, password) }
    /\ UNCHANGED <<settings, available, call>>

\* ACL.get_acl(topic, acc), topic being a str, a bytes, a stored Topic or
\* anything else. An unavailable database fails the first query.
GetAclCall(kind, name, acc) ==
    LET args == [NoCall EXCEPT !.op = "get_acl", !.kind = kind,
                               !.self = name, !.acc = acc]
    IN  /\ kind = "Topic" => \E r \in topics : r.name = name
        /\ IF kind = "other"
           THEN \* raise ValueError
                /\ call' = [args EXCEPT !.outcome = "raise"]
                /\ UNCHANGED topics
           ELSE IF ~available
           THEN /\ call' = [args EXCEPT !.outcome = "raise"]
                /\ UNCHANGED topics
           ELSE IF kind = "bytes"
           THEN \* topic is bound to the (object, created) pair of
                \* get_or_create, which the ACL lookup then rejects
                /\ topics' = get_or_create(name)
                /\ call' = [args EXCEPT !.outcome = "raise"]
           ELSE /\ topics' = IF kind = "str" THEN get_or_create(name) ELSE topics
                /\ \E order \in Enumerations(WildcardRules(acc)) :
                     call' = [args EXCEPT !.outcome = "return",
                                          !.rules = get_acl(name, acc, order)]
        /\ UNCHANGED <<acls, settings, available>>

\* rule.has_permission(user, password) on a stored rule. Its queries on the
\* rule's users and groups fail when the database is unavailable.
HasPermissionCall(rule, user, password) ==
    LET args == [NoCall EXCEPT !.op = "has_permission", !.rules = {rule},
                               !.user = user, !.password = password]
    IN  /\ rule \in acls
        /\ call' = IF available
                   THEN [args EXCEPT !.outcome = "return",
                                     !.bool = has_permission(rule, user, password)]
                   ELSE [args EXCEPT !.outcome = "raise"]
        /\ UNCHANGED <<topics, acls, settings, available>>

\* ACL.get_default(acc, user, password). Only Topic.DoesNotExist is caught:
\* an unavailable database fails the call unless it returned before its
\* first query.
GetDefaultCall(acc, user, password) ==
    LET args == [NoCall EXCEPT !.op = "get_default", !.acc = acc,
                               !.user = user, !.password = password]
    IN  /\ call' = IF available \/ returns_early(user, password)
                   THEN [args EXCEPT !.outcome = "return",
                                     !.bool = get_default(acc, user, password)]
                   ELSE [args EXCEPT !.outcome = "raise"]
        /\ UNCHANGED <<topics, acls, settings, available>>

\* The database stops answering.
StoreDown ==
    /\ available
    /\ available' = FALSE
    /\ UNCHANGED <<topics, acls, settings, call>>

(* ------------------- specification: rule resolution ------------------- *)

RuleNames == NamesUpTo(MaxRuleLen)

\* A rule with the fields' defaults is saved.
RuleAclCreate ==
    /\ Idle
    /\ Cardinality(acls) < MaxRules
    /\ \E name \in RuleNames, acc \in PROTO_MQTT_ACC :
         AclCreate(name, acc, TRUE, {}, {}, <<>>)

NextResolve ==
    \/ RuleAclCreate
    \/ Idle /\ \E kind \in {"str", "bytes", "Topic"}, name \in RuleNames,
                   acc \in PROTO_MQTT_ACC : GetAclCall(kind, name, acc)
    \/ Idle /\ \E acc \in PROTO_MQTT_ACC : GetAclCall("other", <<>>, acc)

SpecResolve == InitTopic /\ [][NextResolve]_vars

\* The rules of kind acc on the very topic.
ExactRules(topic, acc) == { r \in acls : r.topic = topic /\ r.acc = acc }

\* The wildcard rules of kind acc whose topic covers the topic.
ApplicableRules(topic, acc) ==
    { r \in acls : /\ r.acc = acc
                   /\ is_wildcard(r.topic)
                   /\ Topic_contains(r.topic, topic) }

C9_SameRuleInEveryOrder ==
    (call.op = "get_acl" /\ call.outcome = "return") =>
        \A order \in Enumerations(WildcardRules(call.acc)) :
            get_acl(call.self, call.acc, order) = call.rules

(* ----------------- specification: permission evaluation --------------- *)

\* The topics of the rules whose permission is evaluated: the broadcast
\* topic and another one.
PermNames == { <<WILDCARD_MULTI_LEVEL>>, <<"a">> }

\* Passwords given to a check (None: no password), and stored hashes.
RawPasswords == {"s1", "s2"}
StoredPasswords == { <<>>, make_password("s1") }

\* An invalid access kind, besides the two of PROTO_MQTT_ACC.
AccArguments == PROTO_MQTT_ACC \cup {0}

SettingsValues ==
    { st \in [has_allow : BOOLEAN, allow : BOOLEAN,
              has_anon : BOOLEAN, anon : BOOLEAN] :
        /\ ~st.has_allow => ~st.allow
        /\ ~st.has_anon => ~st.anon }

InitPermission ==
    /\ topics = {}
    /\ acls = {}
    /\ settings \in SettingsValues
    /\ available = TRUE
    /\ call = NoCall

PermAclCreate ==
    /\ Idle
    /\ Cardinality(acls) < MaxPermRules
    /\ \E name \in PermNames, acc \in PROTO_MQTT_ACC, allow \in BOOLEAN,
          users \in SUBSET {"u1"}, groups \in SUBSET Groups,
          password \in StoredPasswords :
         AclCreate(name, acc, allow, users, groups, password)

NextPermission ==
    \/ PermAclCreate
    \/ Idle /\ \E rule \in acls, user \in Principals,
                   password \in RawPasswords \cup {None} :
                  HasPermissionCall(rule, user, password)
    \/ Idle /\ \E acc \in AccArguments, user \in Principals,
                   password \in RawPasswords \cup {None} :
                  GetDefaultCall(acc, user, password)

SpecPermission == InitPermission /\ [][NextPermission]_vars

\* The rule has_permission was called on.
CalledRule == CHOOSE r \in call.rules : TRUE

\* The principal belongs to the rule by user id or by group intersection.
Belongs(user, rule) ==
    user \in rule.users \/ UserGroups(user) \cap rule.groups # {}

\* C2: for a rule that is not public and no secret supplied, the decision is
\* rule.allow for a present principal that belongs to the rule, the negation
\* of rule.allow for a present principal that does not, and deny for an
\* absent principal.
C2_MembershipDecision ==
    ( /\ call.op = "has_permission"
      /\ call.password = None
      /\ (CalledRule.users # {} \/ CalledRule.groups # {}
            \/ CalledRule.password # <<>>) ) =>
        /\ call.outcome = "return"
        /\ call.bool = IF call.user = None THEN FALSE
                       ELSE IF Belongs(call.user, CalledRule)
                       THEN CalledRule.allow
                       ELSE ~CalledRule.allow

C2_Witness ==
    /\ call.op = "has_permission"
    /\ call.password = None
    /\ CalledRule.users = {"u1"}
    /\ CalledRule.allow = TRUE
    /\ call.user = "u2"
    /\ call.bool = FALSE

\* The broadcast rules: those on the literal `#` topic for the access kind.
BroadcastRules(acc) ==
    { r \in acls : r.topic = <<"#">> /\ r.acc = acc }

\* The configured default: default_allow, gated by default_allow_anonymous
\* for an absent or anonymous principal.
ConfiguredDefault(user) ==
    LET allow == settings.has_allow /\ settings.allow
    IN  IF user \in {None, Anonymous} /\ settings.has_anon
        THEN allow /\ settings.anon
        ELSE allow

\* C6 as claimed: whenever a broadcast rule exists for acc the result is
\* that rule's has_permission(user, password), for every principal and
\* whatever the default flags; otherwise it is the configured default.
C6_BroadcastRuleAlwaysDecides ==
    call.op = "get_default" =>
        /\ call.outcome = "return"
        /\ IF BroadcastRules(call.acc) # {}
           THEN \A r \in BroadcastRules(call.acc) :
                  call.bool = has_permission(r, call.user, call.password)
           ELSE call.bool = ConfiguredDefault(call.user)

\* C6 amended: an absent or anonymous principal with no secret is denied
\* without the broadcast rule being consulted when the anonymous flag is
\* configured and the configured default for it is deny; in every other
\* case the broadcast rule for acc, if there is one, decides by its
\* has_permission(user, password), and otherwise the result is the
\* configured default.
C6_BroadcastRuleDecidesUnlessAnonymousDenied ==
    call.op = "get_default" =>
        /\ call.outcome = "return"
        /\ IF /\ call.user \in {None, Anonymous}
              /\ call.password = None
              /\ settings.has_anon
              /\ ~ConfiguredDefault(call.user)
           THEN call.bool = FALSE
           ELSE IF BroadcastRules(call.acc) # {}
           THEN \A r \in BroadcastRules(call.acc) :
                  call.bool = has_permission(r, call.user, call.password)
           ELSE call.bool = ConfiguredDefault(call.user)

\* A non-public broadcast rule decides for a user, against the default.
C6_Witness ==
    /\ call.op = "get_default"
    /\ call.user = "u1"
    /\ settings.has_allow /\ settings.allow
    /\ \E r \in BroadcastRules(call.acc) : r.users = {"u1"} /\ ~r.allow
    /\ call.bool = FALSE

\* An anonymous principal without secret is denied although a public
\* broadcast rule allows.
C6_WitnessAnonymousDenied ==
    /\ call.op = "get_default"
    /\ call.user = None
    /\ call.password = None
    /\ \E r \in BroadcastRules(call.acc) : is_public(r) /\ r.allow
    /\ call.bool = FALSE

(* --------------------- specification: all operations ------------------ *)

Next ==
    \/ PermAclCreate
    \/ Idle /\ StoreDown
    \/ Idle /\ \E kind \in {"str", "bytes", "Topic"}, name \in PermNames,
                   acc \in PROTO_MQTT_ACC : GetAclCall(kind, name, acc)
    \/ Idle /\ \E acc \in PROTO_MQTT_ACC : GetAclCall("other", <<>>, acc)
    \/ Idle /\ \E rule \in acls, user \in Principals,
                   password \in RawPasswords \cup {None} :
                  HasPermissionCall(rule, user, password)
    \/ Idle /\ \E acc \in AccArguments, user \in Principals,
                   password \in RawPasswords \cup {None} :
                  GetDefaultCall(acc, user, password)

Spec == InitPermission /\ [][Next]_vars

\* C7: a permission check made while the store is unavailable ends with
\* the decision deny; it never allows and never ends without a decision.
C7_FailClosed ==
    ( /\ ~available
      /\ call.op \in {"get_acl", "get_default", "has_permission"}
      /\ call.kind # "other" ) =>
        /\ call.outcome = "return"
        /\ call.op \in {"get_default", "has_permission"} => call.bool = FALSE

\* C8: a call of get_acl, get_default or has_permission leaves the stored
\* topics and the stored rules exactly as they were.
C8_ReadOnly ==
    [][ call'.op \in {"get_acl", "get_default", "has_permission"} =>
          (topics' = topics /\ acls' = acls) ]_vars

====
